---- MODULE Spec2Model ----
(***************************************************************************)
(* Soft-tissue deformation kernel of the two Panda3D simulators            *)
(* (src/liver.py: BioSimFinal, src/nose.py: NoseSimFinal).                 *)
(*                                                                         *)
(* Floating point values are modelled in fixed point: a position, a        *)
(* velocity, a force, a radius or an influence x is the integer            *)
(* x * Unit, rounded to nearest.  dt is counted in hundredths of a second. *)
(* A vector is a 3-tuple; None is the empty tuple.                         *)
(***************************************************************************)
EXTENDS Integers, Sequences, FiniteSets, TLC

VARIABLES
    sim,               \* which program runs: "liver" or "nose"
    model,             \* self.liver_model / self.nose_model: file name or "None"
    vdata,             \* self.vdata: [owner, verts] or NoVData
    original_verts,    \* self.original_verts
    original_normals,  \* self.original_normals (nose only)
    vertex_velocities, \* self.vertex_velocities
    is_squeezing,      \* self.is_squeezing
    camera_locked,     \* self.camera_locked (nose only)
    squeeze_mode,      \* self.squeeze_mode
    vr_mode_active,    \* self.vr_mode_active
    hand_active,       \* self.vr_hand.active
    hand_pos,          \* self.vr_hand.root position
    user_force,        \* self.user_force
    recovery_speed,    \* self.recovery_speed
    damping_value,     \* self.damping_value (nose only)
    step_error,        \* an IndexError escaped deform_mesh
    frames,            \* number of update_loop calls so far
    hand_visible,      \* self.vr_hand.root is shown
    mouse1_down,       \* the left mouse button is held
    mouse3_down,       \* the right mouse button is held
    is_rotating,       \* self.is_rotating
    sfx_playing,       \* self.squash_sfx.status() == PLAYING
    step_row,          \* row the loop of deform_mesh is at, 0 outside the loop
    last               \* what the most recent handler did

vars == <<sim, model, vdata, original_verts, original_normals,
          vertex_velocities, is_squeezing, camera_locked, squeeze_mode,
          vr_mode_active, hand_active, hand_pos, user_force, recovery_speed,
          damping_value, step_error, frames, hand_visible, mouse1_down,
          mouse3_down, is_rotating, sfx_playing, step_row, last>>

meshVars == <<vdata, original_verts, original_normals, vertex_velocities>>

buttonVars == <<mouse1_down, mouse3_down, is_rotating>>

----------------------------------------------------------------------------
(* Bounds of the model *)

MaxFrames == 2
LoopFrames == 2
StripLen == 10
KernelFrames == 1
RelaxTime == 800
SettleTime == 600
RelaxEps == 20
RelaxMax == 4000
MagnitudeEps == 100

----------------------------------------------------------------------------
(* Fixed-point arithmetic standing for the floats of LVector3 *)

Unit == 1000

None == << >>
Zero == <<0, 0, 0>>

Abs(a) == IF a < 0 THEN -a ELSE a

\* (mutant) the first argument is returned unclamped
Min_First(a, b) == a

Min(a, b) == IF a < b THEN a ELSE b

\* a / b rounded to nearest, b > 0
RDiv(a, b) == IF a >= 0 THEN (2 * a + b) \div (2 * b)
                        ELSE -((2 * (-a) + b) \div (2 * b))

RECURSIVE SqrtIter(_, _)
SqrtIter(n, x) ==
    LET y == (x + n \div x) \div 2
    IN  IF y >= x THEN x ELSE SqrtIter(n, y)

\* floor of the square root
ISqrt(n) == IF n <= 0 THEN 0 ELSE SqrtIter(n, n)

VAdd(a, b) == <<a[1] + b[1], a[2] + b[2], a[3] + b[3]>>
VSub(a, b) == <<a[1] - b[1], a[2] - b[2], a[3] - b[3]>>
VNeg(a) == <<-a[1], -a[2], -a[3]>>

\* vector times the integer k
VTimes(a, k) == <<a[1] * k, a[2] * k, a[3] * k>>

\* vector times the fixed-point scalar s
VScale(a, s) == <<RDiv(a[1] * s, Unit), RDiv(a[2] * s, Unit), RDiv(a[3] * s, Unit)>>

\* vector times a time step of dt hundredths
VTimesDt(a, dt) == <<RDiv(a[1] * dt, 100), RDiv(a[2] * dt, 100), RDiv(a[3] * dt, 100)>>

\* LVector3.length()
VLength(a) == ISqrt(a[1] * a[1] + a[2] * a[2] + a[3] * a[3])

\* LVector3.normalized(): a zero-length vector stays zero
Normalized(a) ==
    LET l == VLength(a)
    IN  IF l = 0 THEN Zero
        ELSE <<RDiv(a[1] * Unit, l), RDiv(a[2] * Unit, l), RDiv(a[3] * Unit, l)>>

\* math.pow(x, 3.0) of a fixed-point x
Cube(x) == RDiv(RDiv(x * x, Unit) * x, Unit)

\* e^(-y) for a fixed-point 0 <= y <= Unit: Taylor polynomial of degree 5
ExpSmall(y) ==
    LET y2 == RDiv(y * y, Unit)
        y3 == RDiv(y2 * y, Unit)
        y4 == RDiv(y3 * y, Unit)
        y5 == RDiv(y4 * y, Unit)
    IN  Unit - y + RDiv(y2, 2) - RDiv(y3, 6) + RDiv(y4, 24) - RDiv(y5, 120)

Square(x) == RDiv(x * x, Unit)

\* math.exp(-x) of a fixed-point x >= 0: e^(-x) = (e^(-x/8))^8
ExpNeg(x) ==
    IF x > 8 * Unit THEN 0
    ELSE Square(Square(Square(ExpSmall(RDiv(x, 8)))))

----------------------------------------------------------------------------
(* Program constants *)

RadiusHard == 2000
RadiusSoft == 4000
VrRadiusBonus == 1500
PushGainLiver == 1200
PushGainNose == 1500
SpringFactor == 5
DampingLiver == 10
Mass == 1
RecoveryHard == 8
RecoveryLiver == 8
RecoverySoft == 2
DampingHard == 10
DampingSoft == 3
DefaultForce == 60
HandSpeed == 25
MaxDt == 5
PlaceholderScale == 5

HandStart == <<0, -10000, 0>>

----------------------------------------------------------------------------
(* Inputs: the model files a user can import, the clock, the mouse *)

NoVData == [owner |-> "None", verts |-> << >>]

\* a row of vertices along the Y axis, StripStep apart
StripStep == 500

\* kind: "ok" a model with a GeomNode; "nogeom" a model without one;
\* "error" the loader raises; "stl" an STL file while trimesh is missing.
\* scale: the node scale left on the model (the placeholder is not flattened
\* after setScale(5.0); an import is flattened to identity).
Files ==
    [sphere |-> [kind |-> "ok", scale |-> PlaceholderScale,
                 verts |-> << <<0, -1000, 0>>, <<1500, 0, 0>> >>,
                 normals |-> << <<0, -1000, 0>>, <<1000, 0, 0>> >>],
     organ  |-> [kind |-> "ok", scale |-> 1,
                 verts |-> << <<0, -5000, 0>>, <<0, -4500, 0>>, <<0, 5000, 0>> >>,
                 normals |-> << >>],
     strip  |-> [kind |-> "ok", scale |-> 1,
                 verts |-> [k \in 1..StripLen |-> <<0, StripStep * k, 0>>],
                 normals |-> << >>],
     empty  |-> [kind |-> "ok", scale |-> 1, verts |-> << >>, normals |-> << >>],
     nogeom |-> [kind |-> "nogeom", scale |-> 1, verts |-> << >>, normals |-> << >>],
     broken |-> [kind |-> "error", scale |-> 1, verts |-> << >>, normals |-> << >>],
     stl    |-> [kind |-> "stl", scale |-> 1, verts |-> << >>, normals |-> << >>]]

\* sphere: the placeholder, with a normal column; organ: an import without
\* a normal column; empty: a GeomNode whose vertex data has no rows; strip: a
\* row of vertices that samples the distance to the probe
Importable == {"organ", "empty", "nogeom", "broken", "stl"}

\* what the mouse ray can hit on the displayed model: surface point and normal
Picks(m) ==
    CASE m = "sphere" -> {[p |-> <<0, -1000, 0>>, n |-> <<0, -1000, 0>>]}
      [] m = "organ"  -> {[p |-> <<0, -5000, 0>>, n |-> <<0, -1000, 0>>],
                          [p |-> <<0, -3000, 0>>, n |-> <<0, -1000, 0>>]}
      [] OTHER        -> {}

NoPick == [p |-> None, n |-> None]

ClockDts == {0, 8}
ForceValues == {0, 60}
Modes == {"hard", "soft"}
\* no key held, or q held: the hand is pushed in (+Y)
MoveVecs == {<<0, 0, 0>>, <<0, 1, 0>>}

ZeroSeq(n) == [i \in 1..n |-> Zero]

----------------------------------------------------------------------------
(* deform_mesh, piece by piece *)

\* (mutant) the VR hand gets no larger radius
InteractionRadius_NoBonus(mode, vr) ==
    IF mode = "hard" THEN RadiusHard ELSE RadiusSoft

\* interaction_radius
InteractionRadius(mode, vr) ==
    (IF mode = "hard" THEN RadiusHard ELSE RadiusSoft)
    + (IF vr THEN VrRadiusBonus ELSE 0)

\* spring_k = self.recovery_speed * 5.0
SpringK(rs) == rs * SpringFactor

\* damping: a local constant in the liver, self.damping_value in the nose
Damping(s, dv) == IF s = "liver" THEN DampingLiver ELSE dv

\* (mutant) the VR hand pushes only while the left button is held
ActiveInteraction_ButtonOnly(s, vr, sq, locked) ==
    IF s = "liver" THEN sq ELSE sq /\ locked

\* active_interaction
ActiveInteraction(s, vr, sq, locked) ==
    IF s = "liver" THEN vr \/ sq ELSE vr \/ (sq /\ locked)

\* (mutant) the falloff is taken of dist/radius instead of 1 - dist/radius
CubicInfluence_Inverted(dist, radius) == Cube(RDiv(dist * Unit, radius))

\* liver: influence = math.pow((1.0 - dist/interaction_radius), 3.0)
CubicInfluence(dist, radius) == Cube(Unit - RDiv(dist * Unit, radius))

\* nose: sigma = radius / 3.0; influence = exp(-(dist*dist) / (2*sigma*sigma))
GaussInfluence(dist, radius) ==
    LET sigma == RDiv(radius, 3)
    IN  ExpNeg(RDiv(dist * dist, RDiv(2 * sigma * sigma, Unit)))

\* (mutant) the mouse push goes along the contact normal, out of the surface
LiverPush_AlongNormal(orig, hit_p, hit_n, vr, force, influence) ==
    IF vr
    THEN VScale(VScale(Normalized(VSub(orig, hit_p)), force * PushGainLiver),
                influence)
    ELSE IF hit_n # None
         THEN VScale(VScale(hit_n, force * PushGainLiver), influence)
         ELSE Zero

\* (mutant) the push is radial whether or not VR mode is on
LiverPush_RadialOnly(orig, hit_p, hit_n, vr, force, influence) ==
    VScale(VScale(Normalized(VSub(orig, hit_p)), force * PushGainLiver), influence)

\* (mutant) the VR hand pulls the vertex towards its centre
LiverPush_Attracts(orig, hit_p, hit_n, vr, force, influence) ==
    IF vr
    THEN VScale(VScale(Normalized(VSub(hit_p, orig)), force * PushGainLiver),
                influence)
    ELSE IF hit_n # None
         THEN VScale(VScale(VNeg(hit_n), force * PushGainLiver), influence)
         ELSE Zero

\* liver: the push on a vertex inside the radius
LiverPush(orig, hit_p, hit_n, vr, force, influence) ==
    IF vr
    THEN VScale(VScale(Normalized(VSub(orig, hit_p)), force * PushGainLiver),
                influence)
    ELSE IF hit_n # None
         THEN VScale(VScale(VNeg(hit_n), force * PushGainLiver), influence)
         ELSE Zero

\* (mutant) the push is not scaled by the force slider
NosePush_ForceDropped(i, orig, normals, hit_p, force, influence) ==
    LET push_dir == IF i <= Len(normals)
                    THEN VNeg(normals[i])
                    ELSE VNeg(Normalized(VSub(orig, hit_p)))
    IN  VScale(VScale(push_dir, PushGainNose), influence)

\* nose: the push on vertex i inside the radius
NosePush(i, orig, normals, hit_p, force, influence) ==
    LET push_dir == IF i <= Len(normals)
                    THEN VNeg(normals[i])
                    ELSE VNeg(Normalized(VSub(orig, hit_p)))
    IN  VScale(VScale(push_dir, force * PushGainNose), influence)

\* (mutant) the boundary counts as inside
InContact_Inclusive(dist, radius) == dist <= radius

\* dist < interaction_radius
InContact(dist, radius) == dist < radius

\* (mutant) the activity test is dropped and a missing probe is the origin
ExtForce_DefaultOrigin(s, i, orig, normals, hit_p, hit_n, active, mode, vr, force) ==
    LET hit == IF hit_p = None THEN Zero ELSE hit_p
        dist == VLength(VSub(orig, hit))
        radius == InteractionRadius(mode, vr)
    IN  IF dist < radius
        THEN IF s = "liver"
             THEN LiverPush(orig, hit, hit_n, vr, force, CubicInfluence(dist, radius))
             ELSE NosePush(i, orig, normals, hit, force, GaussInfluence(dist, radius))
        ELSE Zero

\* ext_force of vertex i
ExtForce(s, i, orig, normals, hit_p, hit_n, active, mode, vr, force) ==
    IF active /\ hit_p # None
    THEN LET dist == VLength(VSub(orig, hit_p))
             radius == InteractionRadius(mode, vr)
         IN  IF InContact(dist, radius)
             THEN IF s = "liver"
                  THEN LiverPush(orig, hit_p, hit_n, vr, force,
                                 CubicInfluence(dist, radius))
                  ELSE NosePush(i, orig, normals, hit_p, force,
                                GaussInfluence(dist, radius))
             ELSE Zero
    ELSE Zero

\* (mutant) the position is advanced with the velocity before the step
Integrate_OldVelocity(cur_pos, orig_pos, velocity, ext_force, spring_k, damping, dt) ==
    LET displacement == VSub(cur_pos, orig_pos)
        spring_force == VTimes(displacement, -spring_k)
        damping_force == VTimes(velocity, -damping)
        sum == VAdd(VAdd(ext_force, spring_force), damping_force)
        new_vel == VAdd(velocity, VTimesDt(sum, dt))
    IN  [vel |-> new_vel, pos |-> VAdd(cur_pos, VTimesDt(velocity, dt))]

\* (mutant) the spring force is left out
Integrate_NoSpring(cur_pos, orig_pos, velocity, ext_force, spring_k, damping, dt) ==
    LET damping_force == VTimes(velocity, -damping)
        new_vel == VAdd(velocity, VTimesDt(VAdd(ext_force, damping_force), dt))
    IN  [vel |-> new_vel, pos |-> VAdd(cur_pos, VTimesDt(new_vel, dt))]

\* (mutant) the spring pulls toward the origin instead of the rest position
Integrate_SpringToOrigin(cur_pos, orig_pos, velocity, ext_force, spring_k, damping, dt) ==
    LET spring_force == VTimes(cur_pos, -spring_k)
        damping_force == VTimes(velocity, -damping)
        sum == VAdd(VAdd(ext_force, spring_force), damping_force)
        new_vel == VAdd(velocity, VTimesDt(sum, dt))
    IN  [vel |-> new_vel, pos |-> VAdd(cur_pos, VTimesDt(new_vel, dt))]

\* Physics Integration of one vertex: [vel, pos] after the step
Integrate(cur_pos, orig_pos, velocity, ext_force, spring_k, damping, dt) ==
    LET displacement == VSub(cur_pos, orig_pos)
        spring_force == VTimes(displacement, -spring_k)
        damping_force == VTimes(velocity, -damping)
        sum == VAdd(VAdd(ext_force, spring_force), damping_force)
        accel == <<sum[1] \div Mass, sum[2] \div Mass, sum[3] \div Mass>>
        new_vel == VAdd(velocity, VTimesDt(accel, dt))
        new_pos == VAdd(cur_pos, VTimesDt(new_vel, dt))
    IN  [vel |-> new_vel, pos |-> new_pos]

\* influence of the simulator s at distance dist
Influence(s, dist, radius) ==
    IF s = "liver" THEN CubicInfluence(dist, radius) ELSE GaussInfluence(dist, radius)

\* rows of self.vdata the loop can index in both lists before an IndexError
Indexable(verts, orig, vels) == Min(Len(verts), Min(Len(orig), Len(vels)))

\* (mutant) the function ends without a return statement
ReturnedFlag_None(s, any_contact) == "None"

\* what deform_mesh returns: the liver's has no return statement, the nose's
\* ends with return any_contact
ReturnedFlag(s, any_contact) ==
    IF s = "liver" THEN "None"
    ELSE IF any_contact THEN "True" ELSE "False"

\* deform_mesh(dt, hit_p, hit_n) on the given state: the new vertex rows, the
\* new velocities, the per-vertex ext_force, the influence that scaled it (0
\* for a vertex that got no push), the interaction_radius, the returned flag,
\* and whether the loop ran off the end of original_verts or vertex_velocities
DeformMesh(s, verts, orig, normals, vels, dt, hit_p, hit_n, mode, vr, sq, locked, force, rs, dv) ==
    LET n == Indexable(verts, orig, vels)
        active == ActiveInteraction(s, vr, sq, locked)
        radius == InteractionRadius(mode, vr)
        Ext(i) == ExtForce(s, i, orig[i], normals, hit_p, hit_n, active, mode, vr, force)
        Res(i) == Integrate(verts[i], orig[i], vels[i], Ext(i),
                            SpringK(rs), Damping(s, dv), dt)
        Contact(i) == /\ active
                      /\ hit_p # None
                      /\ InContact(VLength(VSub(orig[i], hit_p)), radius)
        any_contact == \E i \in 1..n : Contact(i)
    IN  [verts |-> [i \in 1..Len(verts) |-> IF i <= n THEN Res(i).pos ELSE verts[i]],
         vels  |-> [i \in 1..Len(vels) |-> IF i <= n THEN Res(i).vel ELSE vels[i]],
         ext   |-> [i \in 1..n |-> Ext(i)],
         infl  |-> [i \in 1..n |->
                      IF Contact(i)
                      THEN Influence(s, VLength(VSub(orig[i], hit_p)), radius)
                      ELSE 0],
         radius |-> radius,
         ret   |-> ReturnedFlag(s, any_contact),
         error |-> n < Len(verts)]

----------------------------------------------------------------------------
(* What the most recent handler did *)

LastOp(op) ==
    [op |-> op, clock |-> 0, dt |-> 0, hit_p |-> None, hit_n |-> None,
     ext |-> << >>, infl |-> << >>, radius |-> 0,
     pre_pos |-> << >>, pre_vel |-> << >>,
     ret |-> "None", moved |-> FALSE]

\* some vertex is away from its rest position or moving
Displaced ==
    /\ vdata # NoVData
    /\ \/ vdata.verts # original_verts
       \/ vertex_velocities # ZeroSeq(Len(vertex_velocities))

----------------------------------------------------------------------------
(* State after __init__: the placeholder is loaded, VR mode is toggled on *)

\* (mutant) no default normal is appended for a vertex without one
NormalsRead_NoDefault(s, file) ==
    IF s = "liver" THEN << >> ELSE Files[file].normals

\* extract_vertex_data on a model that has a GeomNode: the rest normals
NormalsRead(s, file) ==
    IF s = "liver" THEN << >>
    ELSE [i \in 1..Len(Files[file].verts) |->
            IF i <= Len(Files[file].normals) THEN Files[file].normals[i]
            ELSE <<0, 0, Unit>>]

Init ==
    /\ sim \in {"liver", "nose"}
    /\ model = "sphere"
    /\ vdata = [owner |-> "sphere", verts |-> Files["sphere"].verts]
    /\ original_verts = Files["sphere"].verts
    /\ original_normals = NormalsRead(sim, "sphere")
    /\ vertex_velocities = ZeroSeq(Len(Files["sphere"].verts))
    /\ is_squeezing = FALSE
    /\ camera_locked = FALSE
    /\ squeeze_mode = IF sim = "liver" THEN "hard" ELSE "soft"
    /\ vr_mode_active = TRUE
    /\ hand_active = TRUE
    /\ hand_pos = HandStart
    /\ user_force = DefaultForce
    /\ recovery_speed = IF sim = "liver" THEN RecoveryLiver ELSE RecoverySoft
    /\ damping_value = IF sim = "liver" THEN 0 ELSE DampingSoft
    /\ step_error = FALSE
    /\ frames = 0
    /\ hand_visible = hand_active
    /\ mouse1_down = is_squeezing
    /\ mouse3_down = FALSE
    /\ is_rotating = FALSE
    /\ sfx_playing = FALSE
    /\ step_row = 0
    /\ last = LastOp("other")

----------------------------------------------------------------------------
(* Handlers *)

\* the parameters the next deform_mesh call would use
StepRadius == InteractionRadius(squeeze_mode, vr_mode_active)
StepSpringK == SpringK(recovery_speed)
StepDamping == Damping(sim, damping_value)

\* set_mode(mode): self.recovery_speed after the call
ModeRecovery(s, mode, rs) ==
    IF s = "nose"
    THEN IF mode = "soft" THEN RecoverySoft ELSE RecoveryHard
    ELSE rs

\* (mutant) set_mode leaves the damping alone
ModeDamping_Unchanged(s, mode, dv) == dv

\* set_mode(mode): self.damping_value after the call
ModeDamping(s, mode, dv) ==
    IF s = "nose"
    THEN IF mode = "soft" THEN DampingSoft ELSE DampingHard
    ELSE dv

\* set_mode(mode)
SetMode(mode) ==
    /\ squeeze_mode' = mode
    /\ recovery_speed' = ModeRecovery(sim, mode, recovery_speed)
    /\ damping_value' = ModeDamping(sim, mode, damping_value)
    /\ last' = LastOp("other")
    /\ UNCHANGED <<hand_visible, buttonVars, sfx_playing>>
    /\ UNCHANGED <<sim, step_row, model, meshVars, is_squeezing, camera_locked,
                   vr_mode_active, hand_active, hand_pos, user_force,
                   step_error, frames>>

\* VRHandEmulator.toggle(): self.root.show() if active, self.root.hide() if not
HandShown(active) == active

\* toggle_vr_mode(), with VRHandEmulator.toggle()
ToggleVrMode ==
    /\ hand_active' = ~hand_active
    /\ hand_visible' = HandShown(hand_active')
    /\ vr_mode_active' = hand_active'
    /\ last' = LastOp("other")
    /\ UNCHANGED <<buttonVars, sfx_playing>>
    /\ UNCHANGED <<sim, step_row, model, meshVars, is_squeezing, camera_locked,
                   squeeze_mode, hand_pos, user_force, recovery_speed,
                   damping_value, step_error, frames>>

\* set_squeeze(status) of the liver, Audio Logic: play() unless playing on a
\* press, stop() on a release
SfxAfterSqueeze(playing, status) == status

\* the events 'mouse1' and 'mouse1-up' call set_squeeze(True) and
\* set_squeeze(False); the nose ignores the event while the camera is free
SetSqueeze(status) ==
    /\ mouse1_down' = status
    /\ IF sim = "nose" /\ ~camera_locked
       THEN UNCHANGED is_squeezing
       ELSE is_squeezing' = status
    /\ sfx_playing' = IF sim = "liver" THEN SfxAfterSqueeze(sfx_playing, status)
                                       ELSE sfx_playing
    /\ last' = LastOp("other")
    /\ UNCHANGED <<hand_visible, mouse3_down, is_rotating>>
    /\ UNCHANGED <<sim, step_row, model, meshVars, camera_locked, squeeze_mode,
                   vr_mode_active, hand_active, hand_pos, user_force,
                   recovery_speed, damping_value, step_error, frames>>

\* the events 'mouse3' and 'mouse3-up' call set_rotate(True) and
\* set_rotate(False); the nose ignores the event while the camera is free
SetRotate(status) ==
    /\ mouse3_down' = status
    /\ IF sim = "nose" /\ ~camera_locked
       THEN UNCHANGED is_rotating
       ELSE is_rotating' = status
    /\ last' = LastOp("other")
    /\ UNCHANGED <<hand_visible, mouse1_down, sfx_playing>>
    /\ UNCHANGED <<sim, step_row, model, meshVars, is_squeezing, camera_locked, squeeze_mode,
                   vr_mode_active, hand_active, hand_pos, user_force,
                   recovery_speed, damping_value, step_error, frames>>

\* toggle_camera_lock() (nose only)
ToggleCameraLock ==
    /\ sim = "nose"
    /\ camera_locked' = ~camera_locked
    /\ last' = LastOp("other")
    /\ UNCHANGED <<hand_visible, buttonVars, sfx_playing>>
    /\ UNCHANGED <<sim, step_row, model, meshVars, is_squeezing, squeeze_mode,
                   vr_mode_active, hand_active, hand_pos, user_force,
                   recovery_speed, damping_value, step_error, frames>>

\* update_force(): the slider value becomes user_force
UpdateForce(val) ==
    /\ user_force' = val
    /\ last' = LastOp("other")
    /\ UNCHANGED <<hand_visible, buttonVars, sfx_playing>>
    /\ UNCHANGED <<sim, step_row, model, meshVars, is_squeezing, camera_locked,
                   squeeze_mode, vr_mode_active, hand_active, hand_pos,
                   recovery_speed, damping_value, step_error, frames>>

\* (mutant) the node is removed but self.vdata is kept
DeleteModel_KeepsVData ==
    /\ model' = "None"
    /\ last' = LastOp("other")
    /\ UNCHANGED <<hand_visible, buttonVars, sfx_playing>>
    /\ UNCHANGED <<sim, step_row, vdata, original_verts, original_normals,
                   vertex_velocities, is_squeezing, camera_locked, squeeze_mode,
                   vr_mode_active, hand_active, hand_pos, user_force,
                   recovery_speed, damping_value, step_error, frames>>

\* delete_liver() / delete_nose()
DeleteModel ==
    /\ IF model # "None"
       THEN model' = "None" /\ vdata' = NoVData
       ELSE UNCHANGED <<model, vdata>>
    /\ last' = LastOp("other")
    /\ UNCHANGED <<hand_visible, buttonVars, sfx_playing>>
    /\ UNCHANGED <<sim, step_row, original_verts, original_normals, vertex_velocities,
                   is_squeezing, camera_locked, squeeze_mode, vr_mode_active,
                   hand_active, hand_pos, user_force, recovery_speed,
                   damping_value, step_error, frames>>

\* for v in self.original_verts: w.setData3(v)
RestoredVerts(verts, orig) ==
    [i \in 1..Len(verts) |-> IF i <= Len(orig) THEN orig[i] ELSE verts[i]]

\* (mutant) the old velocities survive the reset
RestoredVelocities_KeepOld(orig, vels) == vels

\* self.vertex_velocities = [LVector3(0,0,0) for _ in self.original_verts]
RestoredVelocities(orig, vels) == ZeroSeq(Len(orig))

\* (mutant) the copy goes the wrong way: the rest positions take the current ones
RestoreImmediate_RebasesRest ==
    /\ IF vdata = NoVData
       THEN UNCHANGED meshVars
       ELSE /\ original_verts' = vdata.verts
            /\ vertex_velocities' = RestoredVelocities(original_verts, vertex_velocities)
            /\ UNCHANGED <<vdata, original_normals>>
    /\ last' = [LastOp("reset") EXCEPT !.moved = Displaced]
    /\ UNCHANGED <<hand_visible, buttonVars, sfx_playing>>
    /\ UNCHANGED <<sim, step_row, model, is_squeezing, camera_locked, squeeze_mode,
                   vr_mode_active, hand_active, hand_pos, user_force,
                   recovery_speed, damping_value, step_error, frames>>

\* restore_immediate()
RestoreImmediate ==
    /\ IF vdata = NoVData
       THEN UNCHANGED meshVars
       ELSE /\ vdata' = [vdata EXCEPT !.verts = RestoredVerts(vdata.verts, original_verts)]
            /\ vertex_velocities' = RestoredVelocities(original_verts, vertex_velocities)
            /\ UNCHANGED <<original_verts, original_normals>>
    /\ last' = [LastOp("reset") EXCEPT !.moved = Displaced]
    /\ UNCHANGED <<hand_visible, buttonVars, sfx_playing>>
    /\ UNCHANGED <<sim, step_row, model, is_squeezing, camera_locked, squeeze_mode,
                   vr_mode_active, hand_active, hand_pos, user_force,
                   recovery_speed, damping_value, step_error, frames>>

\* (mutant) the velocity list of the previous mesh is kept
ExtractedVelocities_KeepOld(verts, old_vels) == old_vels

\* self.vertex_velocities = [LVector3(0,0,0) for _ in self.original_verts]
ExtractedVelocities(verts, old_vels) == ZeroSeq(Len(verts))

\* extract_vertex_data() on the model just installed
ExtractVertexData(file) ==
    IF Files[file].kind = "nogeom"
    THEN UNCHANGED meshVars
    ELSE /\ vdata' = [owner |-> file, verts |-> Files[file].verts]
         /\ original_verts' = Files[file].verts
         /\ original_normals' = NormalsRead(sim, file)
         /\ vertex_velocities' = ExtractedVelocities(Files[file].verts, vertex_velocities)

\* open_file_dialog() -> load_asset(path, target_type): an unsupported STL
\* returns early, a loader exception is caught by open_file_dialog, any model
\* that loads replaces the displayed one before its vertex data is extracted
LoadAsset(file) ==
    /\ IF Files[file].kind \in {"stl", "error"}
       THEN UNCHANGED <<model, meshVars>>
       ELSE model' = file /\ ExtractVertexData(file)
    /\ last' = [LastOp(IF Files[file].kind = "ok" THEN "load_ok" ELSE "load_fail")
                  EXCEPT !.moved = Displaced]
    /\ UNCHANGED <<hand_visible, buttonVars, sfx_playing>>
    /\ UNCHANGED <<sim, step_row, is_squeezing, camera_locked, squeeze_mode,
                   vr_mode_active, hand_active, hand_pos, user_force,
                   recovery_speed, damping_value, step_error, frames>>

\* (mutant) the hand follows the keys whether or not it is active
HandUpdate_IgnoresActive(pos, active, move_vec, dt) ==
    VAdd(pos, VTimes(move_vec, HandSpeed * dt * (Unit \div 100)))

\* VRHandEmulator.update(dt, input_state): the keys held give move_vec
HandUpdate(pos, active, move_vec, dt) ==
    IF active
    THEN VAdd(pos, VTimes(move_vec, HandSpeed * dt * (Unit \div 100)))
    ELSE pos

\* self.<model>.getRelativePoint(self.render, world_hand_pos), model unrotated
RelativePoint(m, p) ==
    <<RDiv(p[1], Files[m].scale), RDiv(p[2], Files[m].scale), RDiv(p[3], Files[m].scale)>>

\* the ray is cast only while squeezing (nose: and the camera is locked)
PickAllowed == IF sim = "liver" THEN is_squeezing ELSE is_squeezing /\ camera_locked

\* AUDIO UPDATE of the nose's update_loop: play() on contact unless playing,
\* stop() without contact if playing
SfxAfterFrame(playing, contact_detected) == contact_detected

\* update_loop(task): one rendering frame
UpdateLoop(clock, move_vec, hasMouse, pick) ==
    LET dt == Min(clock, MaxDt)
        hand == HandUpdate(hand_pos, hand_active, move_vec, dt)
        hit_p == IF vr_mode_active THEN RelativePoint(model, hand) ELSE pick.p
        hit_n == IF vr_mode_active THEN None ELSE pick.n
    IN  /\ frames' = frames + 1
        /\ hand_pos' = hand
        /\ IF hasMouse /\ model # "None" /\ vdata # NoVData
           THEN \E d \in {DeformMesh(sim, vdata.verts, original_verts, original_normals,
                                     vertex_velocities, dt, hit_p, hit_n, squeeze_mode,
                                     vr_mode_active, is_squeezing, camera_locked,
                                     user_force, recovery_speed, damping_value)} :
                /\ vdata' = [vdata EXCEPT !.verts = d.verts]
                /\ vertex_velocities' = d.vels
                /\ step_error' = (step_error \/ d.error)
                /\ sfx_playing' = IF sim = "nose" /\ ~d.error
                                  THEN SfxAfterFrame(sfx_playing, d.ret = "True")
                                  ELSE sfx_playing
                /\ last' = [op |-> "step", clock |-> clock, dt |-> dt,
                            hit_p |-> hit_p, hit_n |-> hit_n,
                            ext |-> d.ext, infl |-> d.infl, radius |-> d.radius,
                            pre_pos |-> vdata.verts,
                            pre_vel |-> vertex_velocities, ret |-> d.ret,
                            moved |-> Displaced]
           ELSE /\ UNCHANGED <<vdata, vertex_velocities, step_error>>
                /\ sfx_playing' = IF sim = "nose" /\ hasMouse
                                  THEN SfxAfterFrame(sfx_playing, FALSE)
                                  ELSE sfx_playing
                /\ last' = LastOp("other")
        /\ UNCHANGED <<hand_visible, buttonVars>>
    /\ UNCHANGED <<sim, step_row, model, original_verts, original_normals, is_squeezing,
                       camera_locked, squeeze_mode, vr_mode_active, hand_active,
                       user_force, recovery_speed, damping_value>>

\* the task manager calls update_loop once per frame
Frame ==
    /\ frames < MaxFrames
    /\ \E clock \in ClockDts, hasMouse \in BOOLEAN :
          \E move_vec \in MoveVecs :
            \E pick \in (IF hasMouse /\ ~vr_mode_active /\ PickAllowed /\ model # "None"
                         THEN Picks(model) \cup {NoPick} ELSE {NoPick}) :
                UpdateLoop(clock, move_vec, hasMouse, pick)

\* the handlers that act on the mesh, the probe and the spring parameters; the
\* right button, which only sets is_rotating, is taken up in NextInput
Next ==
    \/ \E mode \in Modes : SetMode(mode)
    \/ ToggleVrMode
    \/ \E status \in BOOLEAN : SetSqueeze(status)
    \/ ToggleCameraLock
    \/ \E val \in ForceValues : UpdateForce(val)
    \/ DeleteModel
    \/ RestoreImmediate
    \/ \E file \in Importable : LoadAsset(file)
    \/ Frame

Spec == Init /\ [][Next]_vars

----------------------------------------------------------------------------
(* The mouse buttons, the camera lock and the VR button, with the frames    *)
(* between them; the mesh is the placeholder throughout.                    *)

NextInput ==
    \/ \E status \in BOOLEAN : SetSqueeze(status)
    \/ \E status \in BOOLEAN : SetRotate(status)
    \/ ToggleCameraLock
    \/ ToggleVrMode
    \/ Frame

SpecInput == Init /\ [][NextInput]_vars

----------------------------------------------------------------------------
(* The loop of deform_mesh, one vertex at a time, on the arrays it updates  *)
(* in place; the frame's arguments are those of the step just taken.        *)

\* (mutant) the velocity is read at the index of the next vertex
ProcessVertex_NeighbourVelocity(st, i) ==
    LET ext == ExtForce(sim, i, original_verts[i], original_normals, last.hit_p,
                        last.hit_n,
                        ActiveInteraction(sim, vr_mode_active, is_squeezing, camera_locked),
                        squeeze_mode, vr_mode_active, user_force)
        res == Integrate(st.verts[i], original_verts[i],
                         st.vels[(i % Len(st.vels)) + 1], ext,
                         StepSpringK, StepDamping, last.dt)
    IN  [verts |-> [st.verts EXCEPT ![i] = res.pos],
         vels  |-> [st.vels EXCEPT ![i] = res.vel]]

\* one pass of the loop body for row i: rewriter.getData3(), original_verts[i],
\* vertex_velocities[i], then vertex_velocities[i] = new_vel and setData3(new_pos)
ProcessVertex(st, i) ==
    LET ext == ExtForce(sim, i, original_verts[i], original_normals, last.hit_p,
                        last.hit_n,
                        ActiveInteraction(sim, vr_mode_active, is_squeezing, camera_locked),
                        squeeze_mode, vr_mode_active, user_force)
        res == Integrate(st.verts[i], original_verts[i], st.vels[i], ext,
                         StepSpringK, StepDamping, last.dt)
    IN  [verts |-> [st.verts EXCEPT ![i] = res.pos],
         vels  |-> [st.vels EXCEPT ![i] = res.vel]]

\* the loop run over the rows in the given order, from the k-th on
RECURSIVE DeformInOrder(_, _, _)
DeformInOrder(order, k, st) ==
    IF k > Len(order) THEN st
    ELSE DeformInOrder(order, k + 1, ProcessVertex(st, order[k]))

----------------------------------------------------------------------------
(* One frame taken row by row.  update_loop is a task of the task manager   *)
(* and the other handlers are callbacks of events and buttons; the program  *)
(* starts no thread and deform_mesh neither yields nor sends an event, so a *)
(* callback is entered only after the one before it has returned.           *)

\* (mutant) a callback may be entered while deform_mesh is in its loop
Idle_Always == TRUE

\* no call of deform_mesh is in flight
Idle == step_row = 0

\* update_loop up to the first pass of the loop of deform_mesh, in a frame
\* that reaches the physics: the frame's dt, the hand and the probe
LoopBegin(clock, move_vec, pick) ==
    LET dt == Min(clock, MaxDt)
        hand == HandUpdate(hand_pos, hand_active, move_vec, dt)
        hit_p == IF vr_mode_active THEN RelativePoint(model, hand) ELSE pick.p
        hit_n == IF vr_mode_active THEN None ELSE pick.n
    IN  /\ Idle
        /\ frames < LoopFrames
        /\ model # "None"
        /\ vdata # NoVData
        /\ hand_pos' = hand
        /\ step_row' = 1
        /\ last' = [LastOp("in_step") EXCEPT !.clock = clock, !.dt = dt,
                       !.hit_p = hit_p, !.hit_n = hit_n, !.radius = StepRadius,
                       !.pre_pos = vdata.verts, !.pre_vel = vertex_velocities,
                       !.ret = ReturnedFlag(sim, FALSE), !.moved = Displaced]
        /\ UNCHANGED <<hand_visible, buttonVars, sfx_playing>>
        /\ UNCHANGED <<sim, model, meshVars, is_squeezing, camera_locked,
                       squeeze_mode, vr_mode_active, hand_active, user_force,
                       recovery_speed, damping_value, step_error, frames>>

\* if dist < interaction_radius, for row i of the loop
RowContact(i) ==
    /\ ActiveInteraction(sim, vr_mode_active, is_squeezing, camera_locked)
    /\ last.hit_p # None
    /\ InContact(VLength(VSub(original_verts[i], last.hit_p)), StepRadius)

\* one pass of the loop of deform_mesh, or its end: an IndexError, or the
\* return to update_loop, which updates the sound (nose) and returns Task.cont
LoopRow ==
    /\ step_row > 0
    /\ vdata # NoVData
    /\ IF step_row <= Indexable(vdata.verts, original_verts, vertex_velocities)
       THEN \E st \in {ProcessVertex([verts |-> vdata.verts, vels |-> vertex_velocities],
                                     step_row)} :
              /\ vdata' = [vdata EXCEPT !.verts = st.verts]
              /\ vertex_velocities' = st.vels
              /\ step_row' = step_row + 1
              /\ last' = [last EXCEPT !.ret = ReturnedFlag(sim, last.ret = "True"
                                                             \/ RowContact(step_row))]
              /\ UNCHANGED <<frames, step_error, sfx_playing>>
       ELSE /\ step_row' = 0
            /\ frames' = frames + 1
            /\ step_error' = (step_error \/ step_row <= Len(vdata.verts))
            /\ sfx_playing' = IF sim = "nose" /\ step_row > Len(vdata.verts)
                              THEN SfxAfterFrame(sfx_playing, last.ret = "True")
                              ELSE sfx_playing
            /\ last' = [last EXCEPT !.op = "step"]
            /\ UNCHANGED <<vdata, vertex_velocities>>
    /\ UNCHANGED <<hand_visible, buttonVars>>
    /\ UNCHANGED <<sim, model, original_verts, original_normals, is_squeezing,
                   camera_locked, squeeze_mode, vr_mode_active, hand_active,
                   hand_pos, user_force, recovery_speed, damping_value>>

NextLoop ==
    \/ \E clock \in ClockDts, move_vec \in MoveVecs : LoopBegin(clock, move_vec, NoPick)
    \/ LoopRow
    \/ Idle /\ \E mode \in Modes : SetMode(mode)
    \/ Idle /\ \E val \in ForceValues : UpdateForce(val)
    \/ Idle /\ DeleteModel
    \/ Idle /\ RestoreImmediate
    \/ Idle /\ \E file \in Importable : LoadAsset(file)

SpecLoop == Init /\ [][NextLoop]_vars

----------------------------------------------------------------------------
(* Relaxation: the probe is withdrawn (VR mode off, button up) from a mesh  *)
(* that is displaced and moving, and frames follow at a steady rate, for    *)
(* RelaxTime hundredths of a second.                                        *)

RelaxDisps == {-2000, 500, 3000}
RelaxVels == {-5000, 0, 5000}
RelaxDts == 1..MaxDt

InitRelax ==
    /\ sim \in {"liver", "nose"}
    /\ model = "sphere"
    /\ original_verts = Files["sphere"].verts
    /\ original_normals = NormalsRead(sim, "sphere")
    /\ \E d \in RelaxDisps, v \in RelaxVels :
          /\ vdata = [owner |-> "sphere",
                      verts |-> << VAdd(Files["sphere"].verts[1], <<0, d, 0>>),
                                   VAdd(Files["sphere"].verts[2], <<-d, 0, d>>) >>]
          /\ vertex_velocities = << <<0, v, 0>>, <<v, 0, -v>> >>
    /\ is_squeezing = FALSE
    /\ camera_locked = FALSE
    /\ squeeze_mode \in Modes
    /\ vr_mode_active = FALSE
    /\ hand_active = FALSE
    /\ hand_pos = HandStart
    /\ user_force = DefaultForce
    /\ recovery_speed = ModeRecovery(sim, squeeze_mode, RecoveryLiver)
    /\ damping_value = ModeDamping(sim, squeeze_mode, 0)
    /\ step_error = FALSE
    /\ frames = 0
    /\ hand_visible = hand_active
    /\ mouse1_down = FALSE
    /\ mouse3_down = FALSE
    /\ is_rotating = FALSE
    /\ sfx_playing = FALSE
    /\ step_row = 0
    /\ \E dt \in RelaxDts : last = [LastOp("other") EXCEPT !.dt = dt]

\* time simulated so far, in hundredths of a second
Elapsed == frames * last.dt

\* update_loop with the mouse over the window and the frame time of the
\* previous frame
RelaxFrame ==
    /\ Elapsed < RelaxTime
    /\ UpdateLoop(last.dt, Zero, TRUE, NoPick)

NextRelax == RelaxFrame

SpecRelax == InitRelax /\ [][NextRelax]_vars

----------------------------------------------------------------------------
(* deform_mesh as a function of its arguments: update_loop is called on the *)
(* strip mesh with every frame time, and with the probe (the VR hand, or    *)
(* the picked surface point and normal) at several distances from the row   *)
(* of vertices.                                                             *)

\* a frame time of zero, a short frame, and a frame longer than the clamp
KernelClocks == {0, 2, MaxDt + 1}

\* on the first vertex, in front of the row, and off the axis
KernelProbes == {<<0, StripStep, 0>>, <<0, -2 * StripStep, 0>>, <<300, 900, 400>>}

KernelNormals == {<<0, -Unit, 0>>, <<600, 0, -800>>, None}

KernelPicks == {[p |-> p, n |-> n] : p \in KernelProbes, n \in KernelNormals}

InitKernel ==
    /\ sim \in {"liver", "nose"}
    /\ model = "strip"
    /\ vdata = [owner |-> "strip", verts |-> Files["strip"].verts]
    /\ original_verts = Files["strip"].verts
    /\ original_normals = NormalsRead(sim, "strip")
    /\ vertex_velocities = ZeroSeq(StripLen)
    /\ is_squeezing \in BOOLEAN
    /\ camera_locked = is_squeezing
    /\ squeeze_mode \in Modes
    /\ vr_mode_active \in BOOLEAN
    /\ hand_active = vr_mode_active
    /\ hand_pos \in (IF vr_mode_active THEN KernelProbes ELSE {HandStart})
    /\ user_force \in ForceValues
    /\ recovery_speed = ModeRecovery(sim, squeeze_mode, RecoveryLiver)
    /\ damping_value = ModeDamping(sim, squeeze_mode, 0)
    /\ step_error = FALSE
    /\ frames = 0
    /\ hand_visible = hand_active
    /\ mouse1_down = is_squeezing
    /\ mouse3_down = FALSE
    /\ is_rotating = FALSE
    /\ sfx_playing = FALSE
    /\ step_row = 0
    /\ last = LastOp("other")

\* update_loop with the mouse over the window and no key held
KernelStep ==
    /\ frames < KernelFrames
    /\ \E clock \in KernelClocks :
          \E pick \in (IF vr_mode_active THEN {NoPick} ELSE KernelPicks \cup {NoPick}) :
              UpdateLoop(clock, Zero, TRUE, pick)

NextKernel == KernelStep

SpecKernel == InitKernel /\ [][NextKernel]_vars

----------------------------------------------------------------------------
(* Claims *)

\* C1: after restore_immediate on a loaded mesh every vertex is at its rest
\* position with zero velocity, whatever came before, and a second
\* restore_immediate would write the same values again.
C1_ResetToRest ==
    (last.op = "reset" /\ vdata # NoVData) =>
        /\ Len(vdata.verts) = Len(original_verts)
        /\ Len(vertex_velocities) = Len(original_verts)
        /\ \A i \in 1..Len(original_verts) :
              vdata.verts[i] = original_verts[i] /\ vertex_velocities[i] = Zero
        /\ RestoredVerts(vdata.verts, original_verts) = vdata.verts
        /\ RestoredVelocities(original_verts, vertex_velocities) = vertex_velocities

\* a reset that acted on a mesh that was displaced or moving
C1_Witness == last.op = "reset" /\ last.moved /\ vdata # NoVData

\* a file is valid input when it has positions and as many normals as positions
ValidMeshInput(file) ==
    /\ Len(Files[file].verts) > 0
    /\ Len(Files[file].verts) = Len(Files[file].normals)

C3_FailedLoadUntouched ==
    [][last'.op = "load_fail" =>
          /\ model' = model
          /\ meshVars' = meshVars
          /\ model' = vdata'.owner]_vars

\* number of rows of the current-position array (none once vdata is None)
CurrentLen == Len(vdata.verts)

\* the rest-position, velocity and (nose) rest-normal arrays agree in length
RestArraysAgree ==
    /\ Len(vertex_velocities) = Len(original_verts)
    /\ sim = "nose" => Len(original_normals) = Len(original_verts)

\* C4 as claimed: in every reachable state the four arrays have the same
\* length, and it changes only when a load replaces all of them together.
C4_Original ==
    /\ [](RestArraysAgree /\ CurrentLen = Len(original_verts))
    /\ [][(CurrentLen' # CurrentLen \/ Len(original_verts)' # Len(original_verts))
             => last'.op = "load_ok"]_vars

\* C4 amended: the rest and velocity arrays always agree in length, the
\* current-position array agrees with them while vertex data is installed,
\* the rest arrays change length only in a load that replaces all arrays, and
\* the current-position array otherwise only disappears, alone, in a delete.
C4_LengthsAgreeWhileInstalled ==
    /\ [](RestArraysAgree /\ (vdata # NoVData => CurrentLen = Len(original_verts)))
    /\ [][(Len(original_verts)' # Len(original_verts)) =>
             /\ last'.op = "load_ok"
             /\ RestArraysAgree'
             /\ CurrentLen' = Len(original_verts)']_vars
    /\ [][(CurrentLen' # CurrentLen /\ last'.op # "load_ok") =>
             /\ vdata' = NoVData
             /\ model' = "None"
             /\ UNCHANGED <<original_verts, original_normals, vertex_velocities>>]_vars

\* the three-vertex mesh was loaded and then deleted: its rest and velocity
\* arrays are still there, its current positions are not
C4_Witness ==
    /\ model = "None"
    /\ vdata = NoVData
    /\ Len(original_verts) = 3
    /\ Len(vertex_velocities) = 3

\* C5: no deform_mesh call runs off the end of original_verts or
\* vertex_velocities, and every call updates every row of the vertex data,
\* also after failed imports and with no contact normal.
C5_StepNeverFails ==
    /\ ~step_error
    /\ last.op = "step" =>
          /\ Len(last.ext) = Len(vdata.verts)
          /\ Len(vertex_velocities) = Len(vdata.verts)

\* a step ran on the old vertex data after an import without geometry
\* replaced the displayed model
C5_Witness ==
    /\ last.op = "step"
    /\ model = "nogeom"
    /\ vdata.owner # model
    /\ Len(vdata.verts) > 0
    /\ last.hit_n = None

\* C6: one step is exactly  a = ext - (recovery_speed*5)*(cur - rest) - damping*vel,
\* vel' = vel + a*dt, cur' = cur + vel'*dt, per vertex and per axis.
C6_EulerStep ==
    last.op = "step" =>
        \A i \in 1..Len(vdata.verts) : \A c \in 1..3 :
            LET cur == last.pre_pos[i][c]
                vel == last.pre_vel[i][c]
                dampingCoefficient == IF sim = "liver" THEN 10 ELSE damping_value
                a == last.ext[i][c] - (recovery_speed * 5) * (cur - original_verts[i][c])
                       - dampingCoefficient * vel
                newVel == vel + RDiv(a * last.dt, 100)
            IN  /\ vertex_velocities[i][c] = newVel
                /\ vdata.verts[i][c] = cur + RDiv(newVel * last.dt, 100)

\* a step with dt > 0 on a mesh that was already displaced, with a push on
\* some vertex: all three forces act
C6_Witness ==
    /\ last.op = "step"
    /\ last.dt > 0
    /\ last.moved
    /\ \E i \in 1..Len(last.ext) :
          /\ last.ext[i] # Zero
          /\ last.pre_pos[i] # original_verts[i]
          /\ last.pre_vel[i] # Zero

\* a set_mode call that switches from one mode to the other: everything else
\* a step reads is left as it was, so the two states are identical inputs
SwitchedTo(mode) == squeeze_mode # mode /\ squeeze_mode' = mode

\* C8 as claimed: in both simulators Hard has a strictly smaller radius and a
\* strictly larger spring constant and damping coefficient than Soft.
C8_Original ==
    [][/\ SwitchedTo("hard") =>
            /\ StepRadius' < StepRadius
            /\ StepSpringK' > StepSpringK
            /\ StepDamping' > StepDamping
       /\ SwitchedTo("soft") =>
            /\ StepRadius' > StepRadius
            /\ StepSpringK' < StepSpringK
            /\ StepDamping' < StepDamping]_vars

\* C8 amended: the radius is strictly smaller in Hard in both simulators; the
\* spring constant and the damping coefficient are strictly larger in Hard in
\* the nose, and are the same in both modes in the liver.
C8_ModeSymmetry ==
    [][/\ SwitchedTo("hard") =>
            /\ StepRadius' < StepRadius
            /\ IF sim = "nose"
               THEN StepSpringK' > StepSpringK /\ StepDamping' > StepDamping
               ELSE StepSpringK' = StepSpringK /\ StepDamping' = StepDamping
       /\ SwitchedTo("soft") =>
            /\ StepRadius' > StepRadius
            /\ IF sim = "nose"
               THEN StepSpringK' < StepSpringK /\ StepDamping' < StepDamping
               ELSE StepSpringK' = StepSpringK /\ StepDamping' = StepDamping]_vars

\* the nose (which starts in Soft) has been switched to Hard and stepped
C8_Witness ==
    /\ sim = "nose"
    /\ squeeze_mode = "hard"
    /\ last.op = "step"

\* squared distance between two points
Dist2(a, b) ==
    (a[1] - b[1]) * (a[1] - b[1]) + (a[2] - b[2]) * (a[2] - b[2])
    + (a[3] - b[3]) * (a[3] - b[3])

\* C9: in a step with a probe, a vertex whose rest position is at distance
\* d >= interaction radius from the probe (d = radius included) gets exactly
\* zero external force.
C9_OutsideRadiusNoForce ==
    (last.op = "step" /\ last.hit_p # None) =>
        \A i \in 1..Len(last.ext) :
            Dist2(original_verts[i], last.hit_p) >= StepRadius * StepRadius
                => last.ext[i] = Zero

\* an active step with one vertex exactly on the radius and another pushed
C9_Witness ==
    /\ last.op = "step"
    /\ last.hit_p # None
    /\ \E i \in 1..Len(last.ext) :
          Dist2(original_verts[i], last.hit_p) = StepRadius * StepRadius
    /\ \E j \in 1..Len(last.ext) : last.ext[j] # Zero

\* the interaction is active: VR mode, or the left button held (in the nose
\* with the camera locked)
InteractionActive ==
    \/ vr_mode_active
    \/ is_squeezing /\ (sim = "nose" => camera_locked)

\* C10: a step with the interaction inactive, or with no probe position for
\* the frame, gives every vertex the zero external force.
C10_InactiveNoForce ==
    (last.op = "step" /\ (~InteractionActive \/ last.hit_p = None)) =>
        \A i \in 1..Len(last.ext) : last.ext[i] = Zero

\* a step without probe on a displaced mesh: only spring and damping act
C10_Witness ==
    /\ last.op = "step"
    /\ last.hit_p = None
    /\ last.moved
    /\ last.dt > 0
    /\ Len(last.ext) > 0
    /\ vdata.verts # last.pre_pos

\* largest distance, over vertices and axes, from the rest position
MaxDisplacement(bound) ==
    \A i \in 1..Len(vdata.verts) : \A c \in 1..3 :
        Abs(vdata.verts[i][c] - original_verts[i][c]) <= bound

\* C7: with the interaction inactive at every step, for either mode and any
\* 0 < dt <= 0.05, no vertex is ever further than RelaxMax from its rest
\* position, and from SettleTime on every vertex is within RelaxEps of it.
C7_RelaxesToRest ==
    /\ MaxDisplacement(RelaxMax)
    /\ Elapsed >= SettleTime => MaxDisplacement(RelaxEps)

\* the mesh, released displaced, has been stepped back to its rest shape
C7_Witness ==
    /\ last.op = "step"
    /\ last.hit_p = None
    /\ ~InteractionActive
    /\ Elapsed >= RelaxTime
    /\ MaxDisplacement(RelaxEps)

\* C11: a vertex that is at its rest position with zero velocity and gets zero
\* external force in a step is exactly at its rest position with zero
\* velocity after the step, for every dt and both modes.
C11_RestIsFixedPoint ==
    last.op = "step" =>
        \A i \in 1..Len(vdata.verts) :
            (/\ last.pre_pos[i] = original_verts[i]
             /\ last.pre_vel[i] = Zero
             /\ last.ext[i] = Zero)
            => (vdata.verts[i] = original_verts[i] /\ vertex_velocities[i] = Zero)

\* a step with dt > 0 in which one vertex is pushed away from rest while
\* another, out of reach of the probe, rests
C11_Witness ==
    /\ last.op = "step"
    /\ last.dt > 0
    /\ \E i, j \in 1..Len(vdata.verts) :
          /\ last.pre_pos[i] = original_verts[i]
          /\ last.pre_vel[i] = Zero
          /\ last.ext[i] = Zero
          /\ last.ext[j] # Zero
          /\ vdata.verts[j] # original_verts[j]

\* C12: within one step the final positions and velocities are the same in
\* whatever order the vertices are processed: each order of the loop over
\* the arrays before the step yields the arrays after the step.
C12_OrderIndependent ==
    last.op = "step" =>
        \A order \in Permutations(1..Len(vdata.verts)) :
            DeformInOrder(order, 1, [verts |-> last.pre_pos, vels |-> last.pre_vel])
                = [verts |-> vdata.verts, vels |-> vertex_velocities]

\* a step with dt > 0 on three vertices that were displaced, two of which
\* get different pushes
C12_Witness ==
    /\ last.op = "step"
    /\ last.dt > 0
    /\ last.moved
    /\ Len(vdata.verts) = 3
    /\ last.ext[1] # Zero
    /\ last.ext[1] # last.ext[2]
    /\ vdata.verts # last.pre_pos

\* some vertex's rest position is closer to the frame's probe than the radius
ContactExists ==
    /\ last.hit_p # None
    /\ \E i \in 1..Len(original_verts) :
          Dist2(original_verts[i], last.hit_p) < StepRadius * StepRadius

\* C13 as claimed: in both simulators the step returns a boolean that is true
\* exactly when some vertex's rest position is within the radius of the probe.
C13_Original ==
    last.op = "step" =>
        /\ last.ret \in {"True", "False"}
        /\ last.ret = "True" <=> ContactExists

\* C13 amended: the nose's deform_mesh returns that boolean; the liver's
\* deform_mesh returns None in every step.
C13_ContactFlagNoseOnly ==
    last.op = "step" =>
        IF sim = "nose"
        THEN /\ last.ret \in {"True", "False"}
             /\ last.ret = "True" <=> ContactExists
        ELSE last.ret = "None"

\* the nose reports contact in a step where one vertex is within the radius
\* and another is not
C13_Witness ==
    /\ last.op = "step"
    /\ sim = "nose"
    /\ last.ret = "True"
    /\ \E j \in 1..Len(original_verts) :
          Dist2(original_verts[j], last.hit_p) >= StepRadius * StepRadius

\* a step in mouse (surface pick) mode with the interaction active and a
\* picked surface point
SurfacePickStep ==
    /\ last.op = "step"
    /\ ~vr_mode_active
    /\ InteractionActive
    /\ last.hit_p # None

\* the vector dir scaled by forceMagnitude * gain * influence, gain in thousandths
ScaledPush(dir, gain, influence) ==
    [c \in 1..3 |-> RDiv(RDiv(dir[c] * (user_force * gain), Unit) * influence, Unit)]

\* C14 as claimed: in surface pick mode, in both simulators, a vertex within
\* the radius gets -contactNormal * forceMagnitude * 1.2 * influence, or zero
\* when there is no contact normal; at d = 0 that is
\* -contactNormal * forceMagnitude * 1.2.
C14_Original ==
    SurfacePickStep =>
        \A i \in 1..Len(last.ext) :
            Dist2(original_verts[i], last.hit_p) < StepRadius * StepRadius =>
                /\ last.ext[i] = IF last.hit_n # None
                                 THEN ScaledPush(VNeg(last.hit_n), 1200, last.infl[i])
                                 ELSE Zero
                /\ (Dist2(original_verts[i], last.hit_p) = 0 /\ last.hit_n # None) =>
                      last.ext[i] = ScaledPush(VNeg(last.hit_n), 1200, Unit)

\* C14 amended: that is the liver's rule; the nose pushes the vertex along
\* the negative of its own rest normal, scaled by forceMagnitude * 1.5 *
\* influence, whether or not a contact normal is present.
C14_SurfacePickForce ==
    SurfacePickStep =>
        \A i \in 1..Len(last.ext) :
            Dist2(original_verts[i], last.hit_p) < StepRadius * StepRadius =>
                IF sim = "liver"
                THEN /\ last.ext[i] = IF last.hit_n # None
                                      THEN ScaledPush(VNeg(last.hit_n), 1200, last.infl[i])
                                      ELSE Zero
                     /\ (Dist2(original_verts[i], last.hit_p) = 0 /\ last.hit_n # None) =>
                           last.ext[i] = ScaledPush(VNeg(last.hit_n), 1200, Unit)
                ELSE last.ext[i] = ScaledPush(VNeg(original_normals[i]), 1500, last.infl[i])

\* the liver, in mouse mode with a contact normal, pushes the vertex under
\* the pick with the maximal force and a farther vertex with less
C14_Witness ==
    /\ SurfacePickStep
    /\ sim = "liver"
    /\ last.hit_n # None
    /\ user_force > 0
    /\ \E i, j \in 1..Len(last.ext) :
          /\ Dist2(original_verts[i], last.hit_p) = 0
          /\ last.ext[i] = ScaledPush(VNeg(last.hit_n), 1200, Unit)
          /\ last.ext[j] # Zero
          /\ last.ext[j] # last.ext[i]

\* C15: in surface pick mode the influence that scales a vertex's push is 1
\* at d = 0, is 0 at and beyond the interaction radius, and is strictly
\* smaller for the farther of two vertices when the nearer is within the radius.
C15_InfluenceFalloff ==
    SurfacePickStep =>
        \A i, j \in 1..Len(last.infl) :
            LET di == Dist2(original_verts[i], last.hit_p)
                dj == Dist2(original_verts[j], last.hit_p)
                r2 == StepRadius * StepRadius
            IN  /\ di = 0 => last.infl[i] = Unit
                /\ di >= r2 => last.infl[i] = 0
                /\ (di < dj /\ di < r2) => last.infl[i] > last.infl[j]

\* a pick on a vertex, with a second vertex inside the radius and a third
\* exactly on it
C15_Witness ==
    /\ SurfacePickStep
    /\ \E i, j, k \in 1..Len(last.infl) :
          /\ Dist2(original_verts[i], last.hit_p) = 0
          /\ last.infl[i] = Unit
          /\ 0 < last.infl[j]
          /\ last.infl[j] < Unit
          /\ Dist2(original_verts[k], last.hit_p) = StepRadius * StepRadius
          /\ last.infl[k] = 0

\* the radius of the mode alone, without the VR bonus
BaseRadius == IF squeeze_mode = "hard" THEN 2000 ELSE 4000

\* C16: the interaction radius of a step is 2.0 in Hard mode and 4.0 in Soft
\* mode, plus 1.5 exactly when the probe is the VR hand, whatever the
\* simulator, the force, the button and the frame time; the vertices pushed
\* are those nearer to the probe than that.
C16_RadiusValues ==
    last.op = "step" =>
        LET r == BaseRadius + (IF vr_mode_active THEN 1500 ELSE 0)
        IN  /\ last.radius = r
            /\ (InteractionActive /\ last.hit_p # None) =>
                  \A i \in 1..Len(last.infl) :
                      last.infl[i] > 0 <=> Dist2(original_verts[i], last.hit_p) < r * r

\* a step with the VR hand in which a vertex beyond the mode's base radius
\* is within reach, and another lies exactly on the enlarged radius
C16_Witness ==
    /\ last.op = "step"
    /\ vr_mode_active
    /\ \E i, j \in 1..Len(last.infl) :
          /\ Dist2(original_verts[i], last.hit_p) >= BaseRadius * BaseRadius
          /\ last.infl[i] > 0
          /\ Dist2(original_verts[j], last.hit_p) = last.radius * last.radius
          /\ last.infl[j] = 0

\* C17: with the force slider at 0 every vertex gets the zero external force
\* in every step, at every distance, with either probe and in either mode.
C17_ZeroForceMagnitude ==
    (last.op = "step" /\ user_force = 0) =>
        \A i \in 1..Len(last.ext) : last.ext[i] = Zero

\* a step with the force at 0, the interaction active and a vertex within
\* reach of the probe
C17_Witness ==
    /\ last.op = "step"
    /\ user_force = 0
    /\ InteractionActive
    /\ last.hit_p # None
    /\ \E i \in 1..Len(last.infl) : last.infl[i] > 0

\* C18 as claimed: every step gets a dt with 0 < dt <= 0.05, whatever the
\* clock reports.
C18_Original == last.op = "step" => (0 < last.dt /\ last.dt <= 5)

\* C18 amended: every step gets dt = min(clock, 0.05), so 0 <= dt <= 0.05; a
\* frame time of zero is passed on as dt = 0.
C18_DtClampedAbove ==
    last.op = "step" =>
        /\ last.dt = (IF last.clock > 5 THEN 5 ELSE last.clock)
        /\ 0 <= last.dt
        /\ last.dt <= 5

\* a frame longer than 0.05 s was stepped with dt = 0.05
C18_Witness ==
    /\ last.op = "step"
    /\ last.clock > 5
    /\ last.dt = 5
    /\ vdata.verts # last.pre_pos

\* C19: the rest positions and rest normals are changed by no step, reset,
\* mode change, force change, VR toggle or delete; they change only in a
\* load that installs a model's vertex data.
C19_RestImmutable ==
    [][(original_verts' # original_verts \/ original_normals' # original_normals)
          => last'.op = "load_ok"]_vars

\* a reset has just put a deformed mesh back onto rest positions that are
\* still those of the loaded file
C19_Witness ==
    /\ last.op = "reset"
    /\ last.moved
    /\ vdata # NoVData
    /\ original_verts = Files[vdata.owner].verts
    /\ original_normals = NormalsRead(sim, vdata.owner)

\* C20: right after a load that installed a model's vertex data, every
\* vertex's current position is its captured rest position and its velocity
\* is zero, whatever the previous mesh's positions and velocities were.
C20_LoadStartsAtRest ==
    last.op = "load_ok" =>
        /\ vdata.verts = original_verts
        /\ Len(vertex_velocities) = Len(original_verts)
        /\ \A i \in 1..Len(vertex_velocities) : vertex_velocities[i] = Zero

\* a model with vertices was imported over a mesh that was deformed or moving
C20_Witness ==
    /\ last.op = "load_ok"
    /\ last.moved
    /\ Len(original_verts) > 0

----------------------------------------------------------------------------
\* C21: in every rendering frame in which a mesh is loaded (a model is
\* displayed and its vertex data is held) update_loop runs the step, so the
\* positions and velocities are advanced in that frame.
C21_StepEveryFrame ==
    [][(frames' = frames + 1 /\ model # "None" /\ vdata # NoVData)
          => last'.op = "step"]_vars

----------------------------------------------------------------------------
\* the rows of the two arrays other than row i are the same in the next state
OnlyRowChanges(i) ==
    /\ vdata' # NoVData
    /\ vdata'.owner = vdata.owner
    /\ Len(vdata'.verts) = Len(vdata.verts)
    /\ Len(vertex_velocities') = Len(vertex_velocities)
    /\ \A j \in 1..Len(vdata.verts) : j # i => vdata'.verts[j] = vdata.verts[j]
    /\ \A j \in 1..Len(vertex_velocities) :
          j # i => vertex_velocities'[j] = vertex_velocities[j]

----------------------------------------------------------------------------
\* the push direction of vertex i under each of the three direction rules
RuleDirection(rule, i) ==
    CASE rule = "contact_normal" ->
            IF last.hit_n # None THEN VNeg(last.hit_n) ELSE Zero
      [] rule = "rest_normal" -> VNeg(original_normals[i])
      [] rule = "radial" -> Normalized(VSub(original_verts[i], last.hit_p))

\* every force of the step just taken is the one the rule gives
FollowsRule(rule) ==
    \A i \in 1..Len(last.ext) :
        last.ext[i] = IF last.infl[i] = 0 THEN Zero
                      ELSE ScaledPush(RuleDirection(rule, i),
                                      IF sim = "liver" THEN PushGainLiver ELSE PushGainNose,
                                      last.infl[i])

\* C23 as claimed: the direction rule a simulator starts with (the liver:
\* radial from the probe, the nose: the rest normal) is the rule of every
\* step of the session, whatever the user did between the frames.
C23_Original ==
    last.op = "step" =>
        FollowsRule(IF sim = "liver" THEN "radial" ELSE "rest_normal")

\* C23 amended: the nose uses the rest normal in every step; the liver uses
\* the rule of the mode the step runs in, radial from the probe while VR mode
\* is on and the contact normal while it is off, so toggle_vr_mode between
\* two frames changes the rule of the next step.
C23_RuleFollowsVrMode ==
    last.op = "step" =>
        FollowsRule(IF sim = "nose" THEN "rest_normal"
                    ELSE IF vr_mode_active THEN "radial" ELSE "contact_normal")

\* the liver, after VR mode was switched off, pushes a vertex along the
\* contact normal with a force the radial rule does not give
C23_Witness ==
    /\ last.op = "step"
    /\ sim = "liver"
    /\ ~vr_mode_active
    /\ last.hit_n # None
    /\ \E i \in 1..Len(last.ext) : last.ext[i] # Zero
    /\ ~FollowsRule("radial")

----------------------------------------------------------------------------
\* a step of the liver with the VR hand as the probe
VrHandStep ==
    /\ last.op = "step"
    /\ sim = "liver"
    /\ vr_mode_active
    /\ last.hit_p # None

\* the length of a force, computed in hundredths to stay within 32 bits
ForceLength(f) == 10 * VLength(<<RDiv(f[1], 10), RDiv(f[2], 10), RDiv(f[3], 10)>>)

\* forceMagnitude * 1.2 * (1 - d/interactionRadius)^3 for vertex i
RadialMagnitude(i) ==
    RDiv(user_force * PushGainLiver
           * CubicInfluence(VLength(VSub(original_verts[i], last.hit_p)), StepRadius),
         Unit)

\* the force on vertex i points from the probe to the rest position and has
\* the magnitude RadialMagnitude(i), up to the rounding of the arithmetic
RadialPush(i) ==
    /\ last.ext[i] = ScaledPush(Normalized(VSub(original_verts[i], last.hit_p)),
                                PushGainLiver,
                                CubicInfluence(VLength(VSub(original_verts[i], last.hit_p)),
                                               StepRadius))
    /\ Abs(ForceLength(last.ext[i]) - RadialMagnitude(i)) <= MagnitudeEps

\* C24 as claimed: with the VR hand every vertex with 0 <= d < interactionRadius,
\* the one at d = 0 included, gets a force of magnitude
\* forceMagnitude * 1.2 * (1 - d/interactionRadius)^3 along the unit vector
\* from the probe to its rest position.
C24_Original ==
    VrHandStep =>
        \A i \in 1..Len(last.ext) :
            Dist2(original_verts[i], last.hit_p) < StepRadius * StepRadius =>
                /\ Abs(ForceLength(last.ext[i]) - RadialMagnitude(i)) <= MagnitudeEps
                /\ Dist2(original_verts[i], last.hit_p) > 0 => RadialPush(i)

\* C24 amended: that holds for every vertex with 0 < d < interactionRadius; a
\* vertex whose rest position coincides with the probe has no direction to be
\* pushed in and gets the zero force.
C24_RadialForce ==
    VrHandStep =>
        \A i \in 1..Len(last.ext) :
            Dist2(original_verts[i], last.hit_p) < StepRadius * StepRadius =>
                IF Dist2(original_verts[i], last.hit_p) = 0
                THEN last.ext[i] = Zero
                ELSE RadialPush(i)

\* the hand sits on a vertex, which gets no force, while a vertex next to it
\* is pushed away
C24_Witness ==
    /\ VrHandStep
    /\ user_force > 0
    /\ \E i, j \in 1..Len(last.ext) :
          /\ Dist2(original_verts[i], last.hit_p) = 0
          /\ last.ext[i] = Zero
          /\ Dist2(original_verts[j], last.hit_p) < StepRadius * StepRadius
          /\ last.ext[j] # Zero
          /\ RadialPush(j)

----------------------------------------------------------------------------
\* some vertex got a non-zero external force in the step just taken
SomeForce == \E i \in 1..Len(last.ext) : last.ext[i] # Zero

\* C25: in a step taken while VR mode is on, a vertex within the interaction
\* radius of the hand gets the external force of an active interaction,
\* whether or not the left button is held; in a step taken while VR mode is
\* off, a non-zero external force occurs only with is_squeezing true and, in
\* the nose simulator, the camera locked.
C25_VrAlwaysActive ==
    last.op = "step" =>
        IF vr_mode_active
        THEN \A i \in 1..Len(last.ext) :
                Dist2(original_verts[i], last.hit_p) < StepRadius * StepRadius =>
                    last.ext[i] = ExtForce(sim, i, original_verts[i], original_normals,
                                           last.hit_p, last.hit_n, TRUE, squeeze_mode,
                                           TRUE, user_force)
        ELSE SomeForce => (is_squeezing /\ (sim = "nose" => camera_locked))

\* the VR hand pushes a vertex while the left button is up
C25_Witness ==
    /\ last.op = "step"
    /\ vr_mode_active
    /\ ~is_squeezing
    /\ ~mouse1_down
    /\ SomeForce

----------------------------------------------------------------------------
\* C26: in the nose simulator, after any interleaving of mouse1, mouse1-up,
\* mouse3, mouse3-up and camera lock/unlock, is_squeezing is true only while
\* the left button is held and is_rotating only while the right button is
\* held: once a button is released its flag is false.
C26_FlagsFollowButtons ==
    sim = "nose" =>
        /\ is_squeezing => mouse1_down
        /\ is_rotating => mouse3_down

----------------------------------------------------------------------------
\* the VR hand is within the interaction radius of some rest position
HandInContact ==
    /\ vr_mode_active
    /\ model # "None"
    /\ vdata # NoVData
    /\ \E i \in 1..Len(original_verts) :
          Dist2(original_verts[i], RelativePoint(model, hand_pos)) < StepRadius * StepRadius

\* C27: in the nose simulator, with the sound loaded, after every frame that
\* ran a step the squash sound is playing if and only if that step reported
\* contact, and after a frame that ran none the sound is not playing unless
\* the probe is still in contact: the sound does not keep playing once the
\* probe is no longer in contact.
C27_SoundFollowsContact ==
    [][(sim = "nose" /\ frames' = frames + 1) =>
          IF last'.op = "step"
          THEN sfx_playing' <=> (last'.ret = "True")
          ELSE sfx_playing' => HandInContact']_vars

----------------------------------------------------------------------------
\* C28: while no model is displayed after a delete, a frame performs no
\* integration and reset is a no-op: update_loop and restore_immediate leave
\* vdata, the positions, the velocities and the rest arrays as they are and
\* raise no error.
C28_DeletedIsInert ==
    [][(model = "None" /\ (frames' = frames + 1 \/ last'.op = "reset")) =>
          /\ UNCHANGED <<model, meshVars, step_error>>
          /\ vdata = NoVData
          /\ last'.op # "step"]_vars

\* the mesh was deleted while it was moving, and a reset after the delete
\* has left the velocities of the deleted mesh as they were
C28_Witness ==
    /\ model = "None"
    /\ vdata = NoVData
    /\ last.op = "reset"
    /\ frames > 0
    /\ vertex_velocities # ZeroSeq(Len(vertex_velocities))

----------------------------------------------------------------------------
\* the flags of the VR hand agree in the state given by the three values
HandFlagsAgree(vr, active, visible) == vr = active /\ visible = active

\* C29: VR mode is on after construction, and after any number of VR toggles
\* vr_mode_active equals the hand's active flag, the hand is visible exactly
\* when it is active, and the hand's position changes only while it is active.
C29_HandConsistent ==
    /\ HandFlagsAgree(vr_mode_active, hand_active, hand_visible) /\ vr_mode_active = TRUE
    /\ [][/\ HandFlagsAgree(vr_mode_active, hand_active, hand_visible)
          /\ HandFlagsAgree(vr_mode_active', hand_active', hand_visible')
          /\ hand_pos' # hand_pos => hand_active]_vars

\* the hand was moved, then switched off and hidden, and the frames are over
C29_Witness ==
    /\ ~vr_mode_active
    /\ ~hand_active
    /\ ~hand_visible
    /\ hand_pos # HandStart
    /\ frames = MaxFrames

----------------------------------------------------------------------------
\* the spring parameters are those the nose gives the mode
ModeParametersAgree(mode, rs, dv) ==
    IF mode = "soft" THEN rs = 2 /\ dv = 3
    ELSE mode = "hard" /\ rs = 8 /\ dv = 10

\* C30: in every state of the nose simulator the spring parameters are those
\* of the squeeze mode: recovery 2.0 and damping 3.0 in soft mode, recovery
\* 8.0 and damping 10.0 in hard mode; and set_mode changes the mode and these
\* parameters only, never a vertex position or a velocity.
C30_ModeParameters ==
    [][sim = "nose" =>
         /\ ModeParametersAgree(squeeze_mode, recovery_speed, damping_value)
         /\ ModeParametersAgree(squeeze_mode', recovery_speed', damping_value')
         /\ squeeze_mode' # squeeze_mode =>
               UNCHANGED <<model, meshVars, hand_pos, user_force, vr_mode_active,
                           is_squeezing, camera_locked>>]_vars

\* the nose was switched to hard mode while its mesh was displaced and moving
C30_Witness ==
    /\ sim = "nose"
    /\ squeeze_mode = "hard"
    /\ recovery_speed = 8
    /\ damping_value = 10
    /\ last.op = "other"
    /\ Displaced
    /\ vertex_velocities # ZeroSeq(Len(vertex_velocities))

====
